---- MODULE Spec2Model ----
(***************************************************************************)
(* Signaling relay (server.js) and the useWebRTC client hook of the video  *)
(* call application.  The relay keeps a registry  rooms : roomId ->        *)
(* (userId -> {socketId, userId, userName})  beside socket.io's own room   *)
(* membership of each socket; clients create one SimplePeer per remote     *)
(* userId on the relay's membership messages.                              *)
(***************************************************************************)
EXTENDS Integers, Sequences, FiniteSets, TLC

\* ------------------------------------------------------------------ bounds
\* Relay events (join-room, signal, leave-room, disconnect) in one run of
\* the relay taken alone.
MaxEvents == 4

\* Socket connections (socket.id), fresh per connection and never reused.
Conns == {1, 2, 3}
RoomIds == {"r1", "r2"}
UserIds == {"u1", "u2"}
\* The display name a page was opened with (`name` search parameter), one per connection.
UserNameOf == <<"n1", "n2", "n3">>
\* Opaque signal payloads as simple-peer produces them.
Signals == {[type |-> "offer"], [type |-> "answer"]}

NoConn == 0
\* the text of a chat message
ChatText == "hi"

\* Room pages open in browsers: page p owns socket p, was opened on room
\* PageRoomId and drew the random userId PageUserId[p] when it mounted.
Pages == {1, 2}
PageRoomId == "r1"
PageUserId == <<"u1", "u2">>
\* MediaStream objects a page's useMediaStream hands out: the camera stream
\* and the ones setStream(new MediaStream(...)) makes on screen share.
MaxStreams == 2
\* Relay events delivered to a page in a run of the hook taken alone.
MaxArrivals == 4

VARIABLES
    rooms,      \* server.js `rooms`: sequence (insertion order) of [id, users]
    sioRooms,   \* socket.io adapter: roomId -> set of sockets joined to it
    connState,  \* per socket: "new", "connected", "closed"
    relayUp,    \* the relay process is running
    last,       \* the relay event handled last, the registry before it, what it emitted
    joined,     \* history: (roomId, userId) -> socket of the latest join not left/dropped since
    departed,   \* history: (roomId, userId) removed by leave-room or disconnect, not joined since
    nEvents,    \* relay events handled so far
    page,       \* per page: "open", "left"
    localStream,\* per page: useMediaStream's stream (0 = null, else the object's number)
    streamRef,  \* per page: useWebRTC streamRef.current
    peersRef,   \* per page: peersRef.current, userId -> index into peerObjs (0 = absent)
    peerObjs,   \* per page: the SimplePeer instances created, in creation order
    toRelay,    \* per socket: events emitted by the client, not yet handled by the relay
    inbox,      \* per socket: events emitted by the relay, not yet handled by the client
    early,      \* history, per page and userId: signals that found no peer (pending since
                \* the last peer creation or departure; stale once the user departed)
                \* the user-left events handled for the userId, and the peers
                \* for the userId refused for want of a local stream
    testPage,   \* per page: the negotiation test page's RTCPeerConnection and refs
    media       \* per page: useMediaStream's stream objects, their tracks and its refs

relayVars == <<rooms, sioRooms, connState, relayUp, last, joined, departed, nEvents>>

clientVars == <<page, localStream, streamRef, peersRef, peerObjs, toRelay, inbox, early,
               testPage, media>>

vars == <<rooms, sioRooms, connState, relayUp, last, joined, departed, nEvents,
          page, localStream, streamRef, peersRef, peerObjs, toRelay, inbox, early,
          testPage, media>>

\* ------------------------------------------------- insertion-ordered Maps
\* A JavaScript Map keeps insertion order; set() of a present key keeps its place.
MapHas(users, userId) == \E i \in 1..Len(users) : users[i].userId = userId

MapGet(users, userId) == users[CHOOSE i \in 1..Len(users) : users[i].userId = userId]

\* Fault variant: set() adds an entry even when the key is present.
MapSetAppends(users, entry) == Append(users, entry)

MapSet(users, entry) ==
    IF MapHas(users, entry.userId)
    THEN [i \in 1..Len(users) |->
            IF users[i].userId = entry.userId THEN entry ELSE users[i]]
    ELSE Append(users, entry)

MapDelete(users, userId) == SelectSeq(users, LAMBDA e : e.userId # userId)

RoomsHas(rs, roomId) == \E i \in 1..Len(rs) : rs[i].id = roomId

\* rooms.get(roomId): the room's users, in insertion order (<<>> when absent)
RoomsGet(rs, roomId) ==
    IF RoomsHas(rs, roomId)
    THEN rs[CHOOSE i \in 1..Len(rs) : rs[i].id = roomId].users
    ELSE <<>>

RoomsPut(rs, roomId, users) ==
    IF RoomsHas(rs, roomId)
    THEN [i \in 1..Len(rs) |->
            IF rs[i].id = roomId THEN [id |-> roomId, users |-> users] ELSE rs[i]]
    ELSE Append(rs, [id |-> roomId, users |-> users])

RoomsDelete(rs, roomId) == SelectSeq(rs, LAMBDA rm : rm.id # roomId)

\* ------------------------------------------------------- socket.io emits
SortedSeq(S) ==
    CHOOSE s \in [1..Cardinality(S) -> S] : \A i, j \in 1..Cardinality(S) : i < j => s[i] < s[j]

Msg(to, ev, body) == [to |-> to, ev |-> ev, body |-> body]

\* socket.emit(ev, body): to the socket itself
EmitTo(c, ev, body) == <<Msg(c, ev, body)>>

\* socket.to(roomId).emit(ev, body): every socket joined to roomId but the sender
BroadcastTo(sio, roomId, c, ev, body) ==
    LET rcpt == SortedSeq(sio[roomId] \ {c})
    IN  [i \in 1..Len(rcpt) |-> Msg(rcpt[i], ev, body)]

\* -------------------------------------------------------------- join-room
SioJoin(sio, c, roomId) == [sio EXCEPT ![roomId] = @ \cup {c}]

SioLeave(sio, c, roomId) == [sio EXCEPT ![roomId] = @ \ {c}]

existingUsersOf(rs, roomId) == RoomsGet(rs, roomId)

JoinRooms(rs, c, roomId, userId, userName) ==
    RoomsPut(rs, roomId,
             MapSet(existingUsersOf(rs, roomId),
                    [socketId |-> c, userId |-> userId, userName |-> userName]))

UserList(users) ==
    [i \in 1..Len(users) |-> [userId |-> users[i].userId, userName |-> users[i].userName]]

\* Fault variant: the first joiner is announced and listed like any other.
JoinOutAnnounceAlways(rs, sio, c, roomId, userId, userName) ==
    BroadcastTo(SioJoin(sio, c, roomId), roomId, c, "user-joined",
                [userId |-> userId, userName |-> userName])
    \o EmitTo(c, "existing-users", UserList(existingUsersOf(rs, roomId)))

JoinOut(rs, sio, c, roomId, userId, userName) ==
    LET existingUsers == existingUsersOf(rs, roomId)
    IN  IF Len(existingUsers) = 0
        THEN EmitTo(c, "room-joined", [isFirst |-> TRUE])
        ELSE BroadcastTo(SioJoin(sio, c, roomId), roomId, c, "user-joined",
                         [userId |-> userId, userName |-> userName])
             \o EmitTo(c, "existing-users", UserList(existingUsers))

\* ----------------------------------------------------------------- signal
RECURSIVE LastSocketOf(_, _, _)
\* rooms.forEach: the socket of targetUserId in the last room that holds it
LastSocketOf(rs, targetUserId, i) ==
    IF i = 0 THEN NoConn
    ELSE IF MapHas(rs[i].users, targetUserId)
         THEN MapGet(rs[i].users, targetUserId).socketId
         ELSE LastSocketOf(rs, targetUserId, i - 1)

targetSocketIdOf(rs, targetUserId) == LastSocketOf(rs, targetUserId, Len(rs))

RECURSIVE AllEntries(_, _)
\* every registry entry, rooms in order and users in order within a room
AllEntries(rs, i) ==
    IF i > Len(rs) THEN <<>> ELSE rs[i].users \o AllEntries(rs, i + 1)

\* Fault variant: the sender is taken to be whoever is registered last.
fromUserIdOfAnyEntry(rs, c) ==
    LET all == AllEntries(rs, 1)
    IN  IF Len(all) = 0 THEN "" ELSE all[Len(all)].userId

\* the userId of the last entry bound to the sending socket ("" when none)
fromUserIdOf(rs, c) ==
    LET mine == SelectSeq(AllEntries(rs, 1), LAMBDA e : e.socketId = c)
    IN  IF Len(mine) = 0 THEN "" ELSE mine[Len(mine)].userId

\* Fault variant: the signal is sent back to the sending socket.
SignalOutToSender(rs, c, targetUserId, signal) ==
    IF targetSocketIdOf(rs, targetUserId) # NoConn /\ fromUserIdOf(rs, c) # ""
    THEN <<Msg(c, "signal", [fromUserId |-> fromUserIdOf(rs, c), signal |-> signal])>>
    ELSE <<>>

\* Fault variant: a routing miss is reported to the sender.
SignalOutReportMiss(rs, c, targetUserId, signal) ==
    IF targetSocketIdOf(rs, targetUserId) # NoConn /\ fromUserIdOf(rs, c) # ""
    THEN <<Msg(targetSocketIdOf(rs, targetUserId), "signal",
               [fromUserId |-> fromUserIdOf(rs, c), signal |-> signal])>>
    ELSE <<Msg(c, "signal-error", [targetUserId |-> targetUserId])>>

SignalOut(rs, c, targetUserId, signal) ==
    LET targetSocketId == targetSocketIdOf(rs, targetUserId)
        fromUserId == fromUserIdOf(rs, c)
    IN  IF targetSocketId # NoConn /\ fromUserId # ""
        THEN <<Msg(targetSocketId, "signal", [fromUserId |-> fromUserId, signal |-> signal])>>
        ELSE <<>>

\* ------------------------------------------------------------- leave-room
\* Fault variant: leave-room keeps the member in the registry.
LeaveRoomsKeepsMember(rs, roomId, userId) == rs

\* Fault variant: leave-room removes the member but never the emptied room.
LeaveRoomsKeepsEmptyRoom(rs, roomId, userId) ==
    IF RoomsHas(rs, roomId)
    THEN RoomsPut(rs, roomId, MapDelete(RoomsGet(rs, roomId), userId))
    ELSE rs

LeaveRooms(rs, roomId, userId) ==
    IF RoomsHas(rs, roomId)
    THEN LET users == MapDelete(RoomsGet(rs, roomId), userId)
         IN  IF Len(users) = 0 THEN RoomsDelete(rs, roomId) ELSE RoomsPut(rs, roomId, users)
    ELSE rs

LeaveOut(rs, sio, c, roomId, userId) ==
    IF RoomsHas(rs, roomId)
    THEN BroadcastTo(sio, roomId, c, "user-left", [userId |-> userId])
    ELSE <<>>

LeaveSio(rs, sio, c, roomId) ==
    IF RoomsHas(rs, roomId) THEN SioLeave(sio, c, roomId) ELSE sio

\* ------------------------------------------------------------- disconnect
\* socket.io takes a closing socket out of every room before 'disconnect' fires.
DisconnectSio(sio, c) == [r \in RoomIds |-> sio[r] \ {c}]

\* Fault variant: disconnect removes the members but keeps emptied rooms.
DisconnectRoomsKeepsEmpty(rs, c) ==
    [i \in 1..Len(rs) |->
        [id |-> rs[i].id, users |-> SelectSeq(rs[i].users, LAMBDA e : e.socketId # c)]]

\* users.forEach: delete each entry bound to the socket; an emptied room is deleted
DisconnectRooms(rs, c) ==
    LET kept(rm) == SelectSeq(rm.users, LAMBDA e : e.socketId # c)
        cleaned == [i \in 1..Len(rs) |-> [id |-> rs[i].id, users |-> kept(rs[i])]]
        touched(id) == \E e \in {RoomsGet(rs, id)[j] : j \in 1..Len(RoomsGet(rs, id))} :
                          e.socketId = c
    IN  SelectSeq(cleaned, LAMBDA rm : Len(rm.users) > 0 \/ ~touched(rm.id))

RECURSIVE UserLeftOut(_, _, _, _, _)
UserLeftOut(users, sio, c, roomId, j) ==
    IF j > Len(users) THEN <<>>
    ELSE (IF users[j].socketId = c
          THEN BroadcastTo(sio, roomId, c, "user-left", [userId |-> users[j].userId])
          ELSE <<>>)
         \o UserLeftOut(users, sio, c, roomId, j + 1)

RECURSIVE DisconnectOut(_, _, _, _)
DisconnectOut(rs, sio, c, i) ==
    IF i > Len(rs) THEN <<>>
    ELSE UserLeftOut(rs[i].users, DisconnectSio(sio, c), c, rs[i].id, 1)
         \o DisconnectOut(rs, sio, c, i + 1)

\* ----------------------------------------------------------- chat-message
\* the registry entry of room roomId bound to socket c, first in insertion order
SenderOf(rs, c, roomId) ==
    LET mine == SelectSeq(RoomsGet(rs, roomId), LAMBDA u : u.socketId = c)
    IN  IF Len(mine) = 0 THEN [userId |-> "", userName |-> "Guest"]
        ELSE [userId |-> mine[1].userId, userName |-> mine[1].userName]

\* Fault variant: the message is also echoed to the sending socket.
ChatOutEchoes(rs, sio, c, roomId, message) ==
    BroadcastTo(sio, roomId, NoConn, "chat-message",
                [userId |-> SenderOf(rs, c, roomId).userId,
                 userName |-> SenderOf(rs, c, roomId).userName, message |-> message])

ChatOut(rs, sio, c, roomId, message) ==
    BroadcastTo(sio, roomId, c, "chat-message",
                [userId |-> SenderOf(rs, c, roomId).userId,
                 userName |-> SenderOf(rs, c, roomId).userName, message |-> message])

\* ------------------------------------------ the relay of the Next.js route
\* What a handler of app/api/socket/io/route.ts makes of an event, from the
\* registry rs and the socket.io rooms sio: the registry and socket.io rooms
\* after it, the messages emitted, and whether the process is still up.  A
\* signal event whose signal field is missing is kind "signal-undefined".
RouteHandled(kind, rs, sio, c, roomId, userId, userName, signal) ==
    LET room == RoomsGet(rs, roomId)
        entries == AllEntries(rs, 1)
        joinedSio == [sio EXCEPT ![roomId] = @ \cup {c}]
        leftSio == [r \in RoomIds |-> sio[r] \ {c}]
        targets == {i \in 1..Len(rs) : MapHas(rs[i].users, userId)}
        senders == {i \in 1..Len(entries) : entries[i].socketId = c}
        relayed ==
            IF targets # {} /\ senders # {}
            THEN LET t == CHOOSE i \in targets : \A j \in targets : j <= i
                     f == CHOOSE i \in senders : \A j \in senders : j <= i
                 IN  <<Msg(MapGet(rs[t].users, userId).socketId, "signal",
                           [fromUserId |-> entries[f].userId, signal |-> signal])>>
            ELSE <<>>
        remaining == MapDelete(room, userId)
        RECURSIVE Dropped(_, _)
        Dropped(i, j) ==
            IF i > Len(rs) THEN [rooms |-> <<>>, out |-> <<>>]
            ELSE IF j > Len(rs[i].users)
                 THEN LET rest == Dropped(i + 1, 1)
                          users == SelectSeq(rs[i].users, LAMBDA u : u.socketId # c)
                      IN  [rooms |-> IF Len(users) = 0 /\ Len(rs[i].users) > 0
                                     THEN rest.rooms
                                     ELSE <<[id |-> rs[i].id, users |-> users]>> \o rest.rooms,
                           out |-> rest.out]
                 ELSE LET rest == Dropped(i, j + 1)
                      IN  [rooms |-> rest.rooms,
                           out |-> (IF rs[i].users[j].socketId = c
                                    THEN BroadcastTo(leftSio, rs[i].id, c, "user-left",
                                                     [userId |-> rs[i].users[j].userId])
                                    ELSE <<>>) \o rest.out]
    IN  CASE kind = "join-room" ->
               [rooms |-> RoomsPut(rs, roomId,
                                   MapSet(room, [socketId |-> c, userId |-> userId,
                                                 userName |-> userName])),
                sio |-> joinedSio,
                out |-> IF Len(room) = 0
                        THEN EmitTo(c, "room-joined", [isFirst |-> TRUE])
                        ELSE BroadcastTo(joinedSio, roomId, c, "user-joined",
                                         [userId |-> userId, userName |-> userName])
                             \o EmitTo(c, "existing-users", UserList(room)),
                up |-> TRUE]
          [] kind \in {"signal", "signal-undefined"} ->
               [rooms |-> rs, sio |-> sio, out |-> relayed, up |-> TRUE]
          [] kind = "leave-room" ->
               IF RoomsHas(rs, roomId)
               THEN [rooms |-> IF Len(remaining) = 0 THEN RoomsDelete(rs, roomId)
                               ELSE RoomsPut(rs, roomId, remaining),
                     sio |-> [sio EXCEPT ![roomId] = @ \ {c}],
                     out |-> BroadcastTo(sio, roomId, c, "user-left", [userId |-> userId]),
                     up |-> TRUE]
               ELSE [rooms |-> rs, sio |-> sio, out |-> <<>>, up |-> TRUE]
          [] kind = "disconnect" ->
               [rooms |-> Dropped(1, 1).rooms, sio |-> leftSio,
                out |-> Dropped(1, 1).out, up |-> TRUE]

\* ------------------------------------------------------------ observation
Event(kind, c, roomId, userId, userName, signal, out) ==
    [kind |-> kind, conn |-> c, roomId |-> roomId, userId |-> userId,
     userName |-> userName, signal |-> signal,
     preRooms |-> rooms, preSio |-> sioRooms, out |-> out]

NoEvent ==
    [kind |-> "none", conn |-> NoConn, roomId |-> "", userId |-> "", userName |-> "",
     signal |-> [type |-> "none"], preRooms |-> <<>>,
     preSio |-> [r \in RoomIds |-> {}], out |-> <<>>]

\* the test page before "Initialize PeerConnection": pcRef.current is null
NoPeerConnection ==
    [signalingState |-> "none", makingOffer |-> FALSE, ignoreOffer |-> FALSE,
     creating |-> 0, offers |-> 0, logs |-> <<>>, isPolite |-> TRUE, handlerPolite |-> TRUE,
     pendingRemote |-> FALSE, currentRemote |-> FALSE, gathering |-> FALSE, iceSent |-> 0,
     iceReceived |-> <<>>, iceApplied |-> <<>>]

\* useMediaStream before getUserMedia resolves: no track, no stream object,
\* stream and userStreamRef.current null
NoMedia ==
    [tracks |-> <<>>, streams |-> <<>>, stream |-> 0, userStreamRef |-> 0,
     isScreenSharing |-> FALSE, onended |-> 0, shares |-> 0]

\* ------------------------------------------------------------------- Init
Init ==
    /\ rooms = <<>>
    /\ sioRooms = [r \in RoomIds |-> {}]
    /\ connState = [c \in Conns |-> "new"]
    /\ relayUp = TRUE
    /\ last = NoEvent
    /\ joined = [r \in RoomIds, u \in UserIds |-> NoConn]
    /\ departed = {}
    /\ nEvents = 0
    /\ page = [p \in Pages |-> "open"]
    /\ localStream = [p \in Pages |-> 0]
    /\ streamRef = [p \in Pages |-> 0]
    /\ peersRef = [p \in Pages |-> [u \in UserIds |-> 0]]
    /\ peerObjs = [p \in Pages |-> <<>>]
    /\ toRelay = [c \in Conns |-> <<>>]
    /\ inbox = [c \in Conns |-> <<>>]
    /\ early = [p \in Pages |-> [u \in UserIds |-> [pending |-> <<>>, stale |-> <<>>, lefts |-> 0, refused |-> 0]]]
    /\ testPage = [p \in Pages |-> NoPeerConnection]
    /\ media = [p \in Pages |-> NoMedia]

\* ---------------------------------------------------------- relay actions
\* io.on('connection'): socket ids are fresh, so sockets connect in id order
Connection(c) ==
    /\ relayUp
    /\ connState[c] = "new"
    /\ \A d \in Conns : d < c => connState[d] # "new"
    /\ connState' = [connState EXCEPT ![c] = "connected"]
    /\ UNCHANGED <<rooms, sioRooms, relayUp, last, joined, departed>>

OnJoinRoom(c, roomId, userId, userName) ==
    /\ relayUp
    /\ connState[c] = "connected"
    /\ rooms' = JoinRooms(rooms, c, roomId, userId, userName)
    /\ sioRooms' = SioJoin(sioRooms, c, roomId)
    /\ last' = Event("join-room", c, roomId, userId, userName, [type |-> "none"],
                     JoinOut(rooms, sioRooms, c, roomId, userId, userName))
    /\ joined' = [joined EXCEPT ![roomId, userId] = c]
    /\ departed' = departed \ {<<roomId, userId>>}
    /\ UNCHANGED <<connState, relayUp>>

OnSignal(c, targetUserId, signal) ==
    /\ relayUp
    /\ connState[c] = "connected"
    /\ last' = Event("signal", c, "", targetUserId, "", signal,
                     SignalOut(rooms, c, targetUserId, signal))
    /\ UNCHANGED <<rooms, sioRooms, connState, relayUp, joined, departed>>

OnLeaveRoom(c, roomId, userId) ==
    /\ relayUp
    /\ connState[c] = "connected"
    /\ rooms' = LeaveRooms(rooms, roomId, userId)
    /\ sioRooms' = LeaveSio(rooms, sioRooms, c, roomId)
    /\ last' = Event("leave-room", c, roomId, userId, "", [type |-> "none"],
                     LeaveOut(rooms, sioRooms, c, roomId, userId))
    /\ joined' = [joined EXCEPT ![roomId, userId] = NoConn]
    /\ departed' = departed \cup (IF MapHas(RoomsGet(rooms, roomId), userId)
                                  THEN {<<roomId, userId>>} ELSE {})
    /\ UNCHANGED <<connState, relayUp>>

OnDisconnect(c) ==
    /\ relayUp
    /\ connState[c] = "connected"
    /\ rooms' = DisconnectRooms(rooms, c)
    /\ sioRooms' = DisconnectSio(sioRooms, c)
    /\ connState' = [connState EXCEPT ![c] = "closed"]
    /\ last' = Event("disconnect", c, "", "", "", [type |-> "none"],
                     DisconnectOut(rooms, sioRooms, c, 1))
    /\ joined' = [r \in RoomIds, u \in UserIds |->
                    IF joined[r, u] = c THEN NoConn ELSE joined[r, u]]
    /\ departed' = departed \cup {ru \in RoomIds \X UserIds :
                                    /\ MapHas(RoomsGet(rooms, ru[1]), ru[2])
                                    /\ MapGet(RoomsGet(rooms, ru[1]), ru[2]).socketId = c}
    /\ UNCHANGED relayUp

OnChatMessage(c, roomId, message) ==
    /\ relayUp
    /\ connState[c] = "connected"
    /\ last' = Event("chat-message", c, roomId, "", "", [type |-> "none"],
                     ChatOut(rooms, sioRooms, c, roomId, message))
    /\ UNCHANGED <<rooms, sioRooms, connState, relayUp, joined, departed>>

\* A signal event whose payload has a targetUserId but no signal field: the
\* handler's first statement reads signal.type, which throws; nothing catches
\* it, and the relay process ends.
OnSignalUndefined(c, targetUserId) ==
    /\ relayUp
    /\ connState[c] = "connected"
    /\ relayUp' = FALSE
    /\ last' = Event("signal-undefined", c, "", targetUserId, "", [type |-> "none"], <<>>)
    /\ UNCHANGED <<rooms, sioRooms, connState, joined, departed>>

\* An event whose payload is missing: the handler's parameter destructuring
\* throws, nothing catches it, and the relay process ends.
OnMalformed(c) ==
    /\ relayUp
    /\ connState[c] = "connected"
    /\ relayUp' = FALSE
    /\ last' = Event("malformed", c, "", "", "", [type |-> "none"], <<>>)
    /\ UNCHANGED <<rooms, sioRooms, connState, joined, departed>>

\* The relay taken alone: any connected socket may send any event at any time.
RelayConnection(c) == Connection(c) /\ UNCHANGED <<nEvents, clientVars>>

RelayJoinRoom(c, roomId, userId) ==
    /\ nEvents < MaxEvents
    /\ OnJoinRoom(c, roomId, userId, UserNameOf[c])
    /\ nEvents' = nEvents + 1
    /\ UNCHANGED clientVars

RelaySignal(c, targetUserId, signal) ==
    /\ nEvents < MaxEvents
    /\ OnSignal(c, targetUserId, signal)
    /\ nEvents' = nEvents + 1
    /\ UNCHANGED clientVars

RelayLeaveRoom(c, roomId, userId) ==
    /\ nEvents < MaxEvents
    /\ OnLeaveRoom(c, roomId, userId)
    /\ nEvents' = nEvents + 1
    /\ UNCHANGED clientVars

RelayDisconnect(c) ==
    /\ nEvents < MaxEvents
    /\ OnDisconnect(c)
    /\ nEvents' = nEvents + 1
    /\ UNCHANGED clientVars

RelayChatMessage(c, roomId) ==
    /\ nEvents < MaxEvents
    /\ OnChatMessage(c, roomId, ChatText)
    /\ nEvents' = nEvents + 1
    /\ UNCHANGED clientVars

RelayMalformed(c) ==
    /\ nEvents < MaxEvents
    /\ OnMalformed(c)
    /\ nEvents' = nEvents + 1
    /\ UNCHANGED clientVars

RelaySignalUndefined(c, targetUserId) ==
    /\ nEvents < MaxEvents
    /\ OnSignalUndefined(c, targetUserId)
    /\ nEvents' = nEvents + 1
    /\ UNCHANGED clientVars

NextRelay ==
    \/ \E c \in Conns : RelayConnection(c)
    \/ \E c \in Conns, r \in RoomIds, u \in UserIds : RelayJoinRoom(c, r, u)
    \/ \E c \in Conns, u \in UserIds, s \in Signals : RelaySignal(c, u, s)
    \/ \E c \in Conns, r \in RoomIds, u \in UserIds : RelayLeaveRoom(c, r, u)
    \/ \E c \in Conns : RelayDisconnect(c)
    \/ \E c \in Conns, r \in RoomIds : RelayChatMessage(c, r)
    \/ \E c \in Conns : RelayMalformed(c)
    \/ \E c \in Conns, u \in UserIds : RelaySignalUndefined(c, u)

SpecRelay == Init /\ [][NextRelay]_vars

\* ------------------------------------------------------------ room pages
Emit(tr, c, m) == [tr EXCEPT ![c] = Append(@, m)]

\* Fault variant: the join effect emits without looking at its guards.
JoinEffectUnguarded(tr, p, isConnected, stream) ==
    Emit(tr, p, [ev |-> "join-room", roomId |-> PageRoomId,
                 userId |-> PageUserId[p], userName |-> UserNameOf[p]])

\* the join effect: emits join-room once socket, connection and stream are there
JoinEffect(tr, p, isConnected, stream) ==
    IF isConnected /\ stream # 0
    THEN Emit(tr, p, [ev |-> "join-room", roomId |-> PageRoomId,
                      userId |-> PageUserId[p], userName |-> UserNameOf[p]])
    ELSE tr

\* the page shows its controls once media has loaded and the socket is connected
Rendered(p) == page[p] = "open" /\ connState[p] = "connected" /\ localStream[p] # 0

\* Fault variant: a new peer is handed a signal kept from before its creation.
NewPeerReplays(to, initiator, stream) ==
    [to |-> to, initiator |-> initiator, stream |-> stream, st |-> "new",
     got |-> <<[type |-> "offer"]>>, destroys |-> 0, rendered |-> "no"]

\* a fresh SimplePeer on the given local stream; got is what peer.signal() has
\* been handed so far; rendered tells whether the peers state maps the userId
\* to this instance ("yes"), never did ("no") or no longer does ("gone")
NewPeer(to, initiator, stream) ==
    [to |-> to, initiator |-> initiator, stream |-> stream, st |-> "new",
     got |-> <<>>, destroys |-> 0, rendered |-> "no"]

\* setPeers(prev => new Map(prev).set(userId, { peer, ... })) from the stream
\* listener of instance i
PeersSet(objs, i) ==
    [j \in 1..Len(objs) |->
        IF j = i THEN [objs[j] EXCEPT !.rendered = "yes"]
        ELSE IF objs[j].to = objs[i].to /\ objs[j].rendered = "yes"
             THEN [objs[j] EXCEPT !.rendered = "gone"]
             ELSE objs[j]]

\* setPeers(prev => new Map(prev).delete(userId))
PeersDelete(objs, userId) ==
    [j \in 1..Len(objs) |->
        IF objs[j].to = userId /\ objs[j].rendered = "yes"
        THEN [objs[j] EXCEPT !.rendered = "gone"]
        ELSE objs[j]]

\* peer.destroy(); destroys counts the calls made on the instance
Destroyed(peer) == [peer EXCEPT !.st = "destroyed", !.destroys = @ + 1]

\* Fault variant: the entry of a peer that left stays in peersRef.
ForgetPeerKeeps(ref, userId) == ref

\* peersRef.current.delete(userId)
ForgetPeer(ref, userId) == [ref EXCEPT ![userId] = 0]

\* peer.destroy() on the instance peersRef holds for userId, if any
DestroyPeer(objs, ref, userId) ==
    IF ref[userId] = 0 THEN objs
    ELSE [objs EXCEPT ![ref[userId]] = Destroyed(@)]

RECURSIVE CreatePeers(_, _, _, _, _)
\* existingUsers.forEach: a non-initiator peer per listed user, stored under its userId
CreatePeers(objs, ref, users, i, stream) ==
    IF i > Len(users) THEN [objs |-> objs, ref |-> ref]
    ELSE CreatePeers(Append(objs, NewPeer(users[i].userId, FALSE, stream)),
                     [ref EXCEPT ![users[i].userId] = Len(objs) + 1], users, i + 1, stream)

\* peer.signal(signal): an offer starts a fresh non-initiator peer answering,
\* an answer completes an initiator peer that has offered
PeerSignal(peer, signal) ==
    LET handed == [peer EXCEPT !.got = Append(@, signal)]
    IN  IF ~peer.initiator /\ peer.st = "new" /\ signal.type = "offer"
        THEN [handed EXCEPT !.st = "remoteOffer"]
        ELSE IF peer.initiator /\ peer.st = "offered" /\ signal.type = "answer"
             THEN [handed EXCEPT !.st = "connected"]
             ELSE handed

RECURSIVE DeliverAhead(_, _, _)
\* Fault variant: an emit overtakes what the socket's receive queue holds.
DeliverAhead(ib, out, i) ==
    IF i > Len(out) THEN ib
    ELSE DeliverAhead(IF out[i].to \in Pages /\ page[out[i].to] = "open"
                      THEN [ib EXCEPT ![out[i].to] = <<out[i]>> \o @]
                      ELSE ib,
                      out, i + 1)

RECURSIVE Deliver(_, _, _)
\* the relay's emits reach the receive queue of each addressed socket whose page is open
Deliver(ib, out, i) ==
    IF i > Len(out) THEN ib
    ELSE Deliver(IF out[i].to \in Pages /\ page[out[i].to] = "open"
                 THEN [ib EXCEPT ![out[i].to] = Append(@, out[i])]
                 ELSE ib,
                 out, i + 1)

\* socket 'connect': isConnected becomes true and the join effect runs
Connect(p) ==
    /\ page[p] = "open"
    /\ Connection(p)
    /\ toRelay' = JoinEffect(toRelay, p, TRUE, localStream[p])
    /\ UNCHANGED <<nEvents, testPage, media, page, localStream, streamRef, peersRef, peerObjs, inbox, early>>

\* getUserMedia resolves: the stream effect stores it in streamRef, then the join effect runs
MediaReady(p) ==
    /\ page[p] = "open"
    /\ localStream[p] = 0
    /\ localStream' = [localStream EXCEPT ![p] = 1]
    /\ streamRef' = [streamRef EXCEPT ![p] = 1]
    /\ toRelay' = JoinEffect(toRelay, p, connState[p] = "connected", 1)
    /\ UNCHANGED <<relayVars, testPage, media, page, peersRef, peerObjs, inbox, early>>

\* start/stopScreenShare: setStream(new MediaStream(...)); both effects run again
ShareScreen(p) ==
    /\ Rendered(p)
    /\ localStream[p] < MaxStreams
    /\ localStream' = [localStream EXCEPT ![p] = @ + 1]
    /\ streamRef' = [streamRef EXCEPT ![p] = localStream[p] + 1]
    /\ toRelay' = JoinEffect(toRelay, p, TRUE, localStream[p] + 1)
    /\ UNCHANGED <<relayVars, testPage, media, page, peersRef, peerObjs, inbox, early>>

\* handleLeave: leave-room, socket.disconnect(), and the unmount cleanup, which
\* destroys the peers peersRef holds (its own leave-room stays in the closed
\* socket's send buffer)
Leave(p) ==
    /\ Rendered(p)
    /\ toRelay' = Emit(Emit(toRelay, p, [ev |-> "leave-room", roomId |-> PageRoomId,
                                          userId |-> PageUserId[p]]),
                        p, [ev |-> "disconnect"])
    /\ peerObjs' = [peerObjs EXCEPT ![p] =
                       [i \in 1..Len(@) |->
                           IF \E u \in UserIds : peersRef[p][u] = i
                           THEN Destroyed(@[i]) ELSE @[i]]]
    /\ peersRef' = [peersRef EXCEPT ![p] = [u \in UserIds |-> 0]]
    /\ page' = [page EXCEPT ![p] = "left"]
    /\ inbox' = [inbox EXCEPT ![p] = <<>>]
    /\ UNCHANGED <<relayVars, testPage, media, localStream, streamRef, early>>

Received(p, ev) ==
    /\ page[p] = "open"
    /\ inbox[p] # <<>>
    /\ Head(inbox[p]).ev = ev
    /\ inbox' = [inbox EXCEPT ![p] = Tail(@)]

\* history: a peer was created for each of userIds, nothing is pending for them
\* console.error('Cannot create peer - no local stream') for these users
Refused(e, userIds) ==
    [u \in UserIds |-> IF u \in userIds THEN [e[u] EXCEPT !.refused = @ + 1] ELSE e[u]]

PeersMade(e, userIds) ==
    [u \in UserIds |-> IF u \in userIds THEN [e[u] EXCEPT !.pending = <<>>] ELSE e[u]]

\* history: a signal of fromUserId found no peer
FoundNoPeer(e, fromUserId, signal) ==
    [e EXCEPT ![fromUserId].pending = Append(@, signal)]

\* history: userId departed; what was pending for it arrived before the departure
Departed(e, userId) ==
    [e EXCEPT ![userId] = [pending |-> <<>>, stale |-> @.stale \o @.pending,
                           lefts |-> @.lefts + 1]]

handleUserJoined(p) ==
    /\ Received(p, "user-joined")
    /\ LET newUserId == Head(inbox[p]).body.userId
       IN  IF streamRef[p] = 0
           THEN /\ early' = [early EXCEPT ![p] = Refused(@, {newUserId})]
                /\ UNCHANGED <<peerObjs, peersRef>>
           ELSE /\ peerObjs' = [peerObjs EXCEPT ![p] = Append(@, NewPeer(newUserId, TRUE, streamRef[p]))]
                /\ peersRef' = [peersRef EXCEPT ![p][newUserId] = Len(peerObjs[p]) + 1]
                /\ early' = [early EXCEPT ![p] = PeersMade(@, {newUserId})]
    /\ UNCHANGED <<relayVars, testPage, media, page, localStream, streamRef, toRelay>>

handleExistingUsers(p) ==
    /\ Received(p, "existing-users")
    /\ LET existingUsers == Head(inbox[p]).body
           made == CreatePeers(peerObjs[p], peersRef[p], existingUsers, 1, streamRef[p])
       IN  IF streamRef[p] = 0
           THEN /\ early' = [early EXCEPT ![p] =
                                Refused(@, {existingUsers[k].userId :
                                              k \in 1..Len(existingUsers)})]
                /\ UNCHANGED <<peerObjs, peersRef>>
           ELSE /\ peerObjs' = [peerObjs EXCEPT ![p] = made.objs]
                /\ peersRef' = [peersRef EXCEPT ![p] = made.ref]
                /\ early' = [early EXCEPT ![p] =
                                PeersMade(@, {existingUsers[k].userId :
                                                k \in 1..Len(existingUsers)})]
    /\ UNCHANGED <<relayVars, testPage, media, page, localStream, streamRef, toRelay>>

handleSignal(p) ==
    /\ Received(p, "signal")
    /\ LET fromUserId == Head(inbox[p]).body.fromUserId
           signal == Head(inbox[p]).body.signal
           peer == peersRef[p][fromUserId]
       IN  IF peer = 0
           THEN /\ early' = [early EXCEPT ![p] = FoundNoPeer(@, fromUserId, signal)]
                /\ UNCHANGED peerObjs
           ELSE /\ peerObjs' = [peerObjs EXCEPT ![p][peer] = PeerSignal(@, signal)]
                /\ UNCHANGED early
    /\ UNCHANGED <<relayVars, testPage, media, page, localStream, streamRef, peersRef, toRelay>>

handleUserLeft(p) ==
    /\ Received(p, "user-left")
    /\ LET leftUserId == Head(inbox[p]).body.userId
       IN  /\ peerObjs' = [peerObjs EXCEPT ![p] =
                              IF peersRef[p][leftUserId] = 0 THEN @
                              ELSE PeersDelete(DestroyPeer(@, peersRef[p], leftUserId),
                                               leftUserId)]
           /\ peersRef' = [peersRef EXCEPT ![p] = ForgetPeer(@, leftUserId)]
           /\ early' = [early EXCEPT ![p] = Departed(@, leftUserId)]
    /\ UNCHANGED <<relayVars, testPage, media, page, localStream, streamRef, toRelay>>

\* room-joined has no listener in the hook: the event is discarded
RoomJoinedIgnored(p) ==
    /\ Received(p, "room-joined")
    /\ UNCHANGED <<relayVars, testPage, media, page, localStream, streamRef, peersRef, peerObjs,
                   toRelay, early>>

\* peer.on('signal'): an initiator emits its offer, a peer that took an offer its answer
PeerOnSignal(p, i) ==
    /\ page[p] = "open"
    /\ i \in 1..Len(peerObjs[p])
    /\ LET peer == peerObjs[p][i]
       IN  /\ \/ peer.initiator /\ peer.st = "new"
              \/ ~peer.initiator /\ peer.st = "remoteOffer"
           /\ peerObjs' = [peerObjs EXCEPT ![p][i].st =
                              IF peer.initiator THEN "offered" ELSE "answered"]
           /\ toRelay' = Emit(toRelay, p,
                              [ev |-> "signal", targetUserId |-> peer.to,
                               signal |-> [type |-> IF peer.initiator THEN "offer"
                                                    ELSE "answer"]])
    /\ UNCHANGED <<relayVars, testPage, media, page, localStream, streamRef, peersRef, inbox, early>>

PeersSignal(p) == \E i \in 1..Len(peerObjs[p]) : PeerOnSignal(p, i)

\* peer.on('stream'): the remote stream of instance i arrives, once, after the
\* remote description is in place; the listener records the instance in the
\* peers state under the userId it was created for
PeerOnStream(p, i) ==
    /\ page[p] = "open"
    /\ i \in 1..Len(peerObjs[p])
    /\ peerObjs[p][i].st \in {"remoteOffer", "answered", "connected"}
    /\ peerObjs[p][i].rendered = "no"
    /\ peerObjs' = [peerObjs EXCEPT ![p] = PeersSet(@, i)]
    /\ UNCHANGED <<relayVars, testPage, media, page, localStream, streamRef, peersRef,
                   toRelay, inbox, early>>

\* the relay takes the next event of socket c and its emits are delivered
Taken(c, ev) ==
    /\ toRelay[c] # <<>>
    /\ Head(toRelay[c]).ev = ev

Relayed(c) ==
    /\ toRelay' = [toRelay EXCEPT ![c] = Tail(@)]
    /\ inbox' = Deliver(inbox, last'.out, 1)
    /\ UNCHANGED <<nEvents, testPage, media, page, localStream, streamRef, peersRef, peerObjs, early>>

TakeJoinRoom(c) ==
    /\ Taken(c, "join-room")
    /\ OnJoinRoom(c, Head(toRelay[c]).roomId, Head(toRelay[c]).userId,
                  Head(toRelay[c]).userName)
    /\ Relayed(c)

TakeSignal(c) ==
    /\ Taken(c, "signal")
    /\ OnSignal(c, Head(toRelay[c]).targetUserId, Head(toRelay[c]).signal)
    /\ Relayed(c)

TakeLeaveRoom(c) ==
    /\ Taken(c, "leave-room")
    /\ OnLeaveRoom(c, Head(toRelay[c]).roomId, Head(toRelay[c]).userId)
    /\ Relayed(c)

TakeDisconnect(c) ==
    /\ Taken(c, "disconnect")
    /\ OnDisconnect(c)
    /\ Relayed(c)

Next ==
    \/ \E p \in Pages : Connect(p)
    \/ \E p \in Pages : MediaReady(p)
    \/ \E p \in Pages : ShareScreen(p)
    \/ \E p \in Pages : Leave(p)
    \/ \E p \in Pages : handleUserJoined(p)
    \/ \E p \in Pages : handleExistingUsers(p)
    \/ \E p \in Pages : handleSignal(p)
    \/ \E p \in Pages : handleUserLeft(p)
    \/ \E p \in Pages : RoomJoinedIgnored(p)
    \/ \E p \in Pages : PeersSignal(p)
    \/ \E c \in Pages : TakeJoinRoom(c)
    \/ \E c \in Pages : TakeSignal(c)
    \/ \E c \in Pages : TakeLeaveRoom(c)
    \/ \E c \in Pages : TakeDisconnect(c)

Spec == Init /\ [][Next]_vars

\* The room pages with a local stream that never changes once loaded: every
\* page emits join-room once.
NextOnce ==
    \/ \E p \in Pages : Connect(p)
    \/ \E p \in Pages : MediaReady(p)
    \/ \E p \in Pages : Leave(p)
    \/ \E p \in Pages : handleUserJoined(p)
    \/ \E p \in Pages : handleExistingUsers(p)
    \/ \E p \in Pages : handleSignal(p)
    \/ \E p \in Pages : handleUserLeft(p)
    \/ \E p \in Pages : RoomJoinedIgnored(p)
    \/ \E p \in Pages : PeersSignal(p)
    \/ \E c \in Pages : TakeJoinRoom(c)
    \/ \E c \in Pages : TakeSignal(c)
    \/ \E c \in Pages : TakeLeaveRoom(c)
    \/ \E c \in Pages : TakeDisconnect(c)

SpecOnce == Init /\ [][NextOnce]_vars

\* Fair delivery: the relay takes every event a socket has sent, every page
\* runs the listener of every event it has received, and every peer emits the
\* signal it has ready. What the users do (share the screen, leave) is not forced.
FairDelivery(p) ==
    /\ WF_vars(TakeJoinRoom(p))
    /\ WF_vars(TakeSignal(p))
    /\ WF_vars(TakeLeaveRoom(p))
    /\ WF_vars(TakeDisconnect(p))
    /\ WF_vars(handleUserJoined(p))
    /\ WF_vars(handleExistingUsers(p))
    /\ WF_vars(handleSignal(p))
    /\ WF_vars(handleUserLeft(p))
    /\ WF_vars(RoomJoinedIgnored(p))
    /\ WF_vars(PeersSignal(p))

SpecFair == Spec /\ \A p \in Pages : FairDelivery(p)

\* ------------------------------------------------------- the hook alone
\* The hook of one mounted page taken alone: the relay forwards a signal from
\* any registered sender to any registered userId, whatever their rooms, and
\* userIds may leave and join again, so its events may arrive in any order.
HookPage == 1

RelayEmits ==
    {Msg(HookPage, "user-joined", [userId |-> u, userName |-> "n2"]) : u \in UserIds}
    \cup {Msg(HookPage, "existing-users", <<[userId |-> "u2", userName |-> "n2"]>>),
          Msg(HookPage, "existing-users", <<[userId |-> "u2", userName |-> "n2"],
                                            [userId |-> "u1", userName |-> "n1"]>>)}
    \cup {Msg(HookPage, "signal", [fromUserId |-> u, signal |-> s]) :
             u \in UserIds, s \in Signals}
    \cup {Msg(HookPage, "user-left", [userId |-> u]) : u \in UserIds}
    \cup {Msg(HookPage, "room-joined", [isFirst |-> TRUE])}

\* the page is mounted, its stream is there, its socket connected, join-room emitted
InitHook ==
    /\ rooms = <<>>
    /\ sioRooms = [r \in RoomIds |-> {}]
    /\ connState = [c \in Conns |-> IF c = HookPage THEN "connected" ELSE "new"]
    /\ relayUp = TRUE
    /\ last = NoEvent
    /\ joined = [r \in RoomIds, u \in UserIds |-> NoConn]
    /\ departed = {}
    /\ nEvents = 0
    /\ page = [p \in Pages |-> "open"]
    /\ localStream = [p \in Pages |-> IF p = HookPage THEN 1 ELSE 0]
    /\ streamRef = [p \in Pages |-> IF p = HookPage THEN 1 ELSE 0]
    /\ peersRef = [p \in Pages |-> [u \in UserIds |-> 0]]
    /\ peerObjs = [p \in Pages |-> <<>>]
    /\ toRelay = JoinEffect([c \in Conns |-> <<>>], HookPage, TRUE, 1)
    /\ inbox = [c \in Conns |-> <<>>]
    /\ early = [p \in Pages |-> [u \in UserIds |-> [pending |-> <<>>, stale |-> <<>>, lefts |-> 0, refused |-> 0]]]
    /\ testPage = [p \in Pages |-> NoPeerConnection]
    /\ media = [p \in Pages |-> NoMedia]

\* an event of the relay reaches the page; events are handled one at a time
HookArrives(m) ==
    /\ inbox[HookPage] = <<>>
    /\ nEvents < MaxArrivals
    /\ inbox' = [inbox EXCEPT ![HookPage] = <<m>>]
    /\ nEvents' = nEvents + 1
    /\ UNCHANGED <<rooms, sioRooms, connState, relayUp, last, joined, departed,
                   testPage, media, page, localStream, streamRef, peersRef, peerObjs, toRelay,
                   early>>

NextHook ==
    \/ \E m \in RelayEmits : HookArrives(m)
    \/ handleUserJoined(HookPage)
    \/ handleExistingUsers(HookPage)
    \/ handleSignal(HookPage)
    \/ handleUserLeft(HookPage)
    \/ RoomJoinedIgnored(HookPage)
    \/ PeersSignal(HookPage)

SpecHook == InitHook /\ [][NextHook]_vars

\* The hook with its unmount: the effect cleanup may run at any time.
NextClose ==
    \/ NextHook
    \/ Leave(HookPage)

SpecClose == InitHook /\ [][NextClose]_vars

\* The hook with the remote streams of its peers arriving.
NextRender ==
    \/ NextClose
    \/ \E i \in 1..Len(peerObjs[HookPage]) : PeerOnStream(HookPage, i)

SpecRender == InitHook /\ [][NextRender]_vars

\* The hook from its mount: the socket connects and the media loads in either
\* order, and once connected the socket may deliver any event.
NextJoin ==
    \/ Connect(HookPage)
    \/ MediaReady(HookPage)
    \/ ShareScreen(HookPage)
    \/ connState[HookPage] = "connected" /\ NextClose

SpecJoin == Init /\ [][NextJoin]_vars

\* ------------------------------------------- the negotiation test page
\* Two tabs of the test page in one room, each with its RTCPeerConnection
\* initialized and the other tab known as remote user. Their offers and
\* answers travel through the relay's signal handler.
MaxOffers == 2
\* ICE candidates a connection gathers
MaxCandidates == 1

\* the Polite checkbox: tab 1 is the impolite side, tab 2 the polite side
isPolite == [p \in Pages |-> p = 2]

remoteUserIdRef == [p \in Pages |-> PageUserId[3 - p]]

\* pc.setLocalDescription({type: 'rollback'}): rejected unless an offer is pending
RollbackRejects(signalingState) == [ok |-> FALSE, signalingState |-> signalingState]

Rollback(signalingState) ==
    IF signalingState \in {"have-local-offer", "have-remote-offer"}
    THEN [ok |-> TRUE, signalingState |-> "stable"]
    ELSE [ok |-> FALSE, signalingState |-> signalingState]

\* addLog: the warn, error and completion lines of the page's log
AddLog(tp, line) == [tp EXCEPT !.logs = Append(@, line)]

\* a tab after buttons 1-4 (connect, join, start stream, initialize): the
\* handlers registered by connectSignaling hold the isPolite of that render
TabReady(polite) ==
    [NoPeerConnection EXCEPT !.signalingState = "stable", !.isPolite = polite,
                             !.handlerPolite = polite]

InitGlare ==
    /\ rooms = JoinRooms(JoinRooms(<<>>, 1, PageRoomId, PageUserId[1], PageUserId[1]),
                         2, PageRoomId, PageUserId[2], PageUserId[2])
    /\ sioRooms = SioJoin(SioJoin([r \in RoomIds |-> {}], 1, PageRoomId), 2, PageRoomId)
    /\ connState = [c \in Conns |-> IF c \in Pages THEN "connected" ELSE "new"]
    /\ relayUp = TRUE
    /\ last = NoEvent
    /\ joined = [r \in RoomIds, u \in UserIds |->
                    IF r = PageRoomId THEN CHOOSE p \in Pages : PageUserId[p] = u
                    ELSE NoConn]
    /\ departed = {}
    /\ nEvents = 0
    /\ page = [p \in Pages |-> "open"]
    /\ localStream = [p \in Pages |-> 0]
    /\ streamRef = [p \in Pages |-> 0]
    /\ peersRef = [p \in Pages |-> [u \in UserIds |-> 0]]
    /\ peerObjs = [p \in Pages |-> <<>>]
    /\ toRelay = [c \in Conns |-> <<>>]
    /\ inbox = [c \in Conns |-> <<>>]
    /\ early = [p \in Pages |-> [u \in UserIds |-> [pending |-> <<>>, stale |-> <<>>, lefts |-> 0, refused |-> 0]]]
    /\ testPage = [p \in Pages |-> TabReady(isPolite[p])]
    /\ media = [p \in Pages |-> NoMedia]

\* "Send Offer": initiateConnection up to its await of pc.createOffer()
initiateConnection(p) ==
    /\ testPage[p].signalingState # "none"
    /\ ~testPage[p].makingOffer
    /\ testPage[p].offers < MaxOffers
    /\ testPage' = [testPage EXCEPT ![p] =
                       [@ EXCEPT !.makingOffer = TRUE, !.creating = @ + 1, !.offers = @ + 1]]
    /\ UNCHANGED <<relayVars, media, page, localStream, streamRef, peersRef, peerObjs,
                   toRelay, inbox, early>>

\* initiateConnection after createOffer resolved: setLocalDescription(offer)
\* and sendOffer, or the catch when the description cannot be set
OfferCreated(p) ==
    /\ testPage[p].creating > 0
    /\ IF testPage[p].signalingState \in {"stable", "have-local-offer"}
       THEN /\ testPage' = [testPage EXCEPT ![p] =
                               [@ EXCEPT !.creating = @ - 1,
                                         !.signalingState = "have-local-offer",
                                         !.gathering = TRUE]]
            /\ toRelay' = Emit(toRelay, p, [ev |-> "signal",
                                            targetUserId |-> remoteUserIdRef[p],
                                            signal |-> [type |-> "offer"]])
       ELSE /\ testPage' = [testPage EXCEPT ![p] =
                               AddLog([@ EXCEPT !.creating = @ - 1,
                                                !.makingOffer = FALSE], "error")]
            /\ UNCHANGED toRelay
    /\ UNCHANGED <<relayVars, media, page, localStream, streamRef, peersRef, peerObjs,
                   inbox, early>>

\* the next event of page p is a signal carrying a description of this type
ReceivedDescription(p, type) ==
    /\ Received(p, "signal")
    /\ Head(inbox[p]).body.signal.type = type

\* setRemoteDescription(offer) followed by setLocalDescription(): the offer
\* becomes the current remote description, the answer the local one
Answered(tp) ==
    [tp EXCEPT !.signalingState = "stable", !.pendingRemote = FALSE,
               !.currentRemote = TRUE, !.gathering = TRUE]

\* what handleOffer leaves of the page: an ignored offer (impolite, collision),
\* a rollback followed by the offer and its answer (polite, collision), or the
\* offer and its answer; `finally` clears makingOffer in every case
OfferHandled(tp, polite) ==
    LET offerCollision == tp.makingOffer \/ tp.signalingState # "stable"
        ignoreOffer == ~polite /\ offerCollision
        rolled == Rollback(tp.signalingState)
        done == [tp EXCEPT !.makingOffer = FALSE, !.ignoreOffer = ignoreOffer]
    IN  IF ignoreOffer
        THEN [tp |-> AddLog(done, "ignored"), answer |-> FALSE]
        ELSE IF offerCollision
             THEN IF rolled.ok
                  THEN [tp |-> AddLog(Answered(done), "rollback"), answer |-> TRUE]
                  ELSE [tp |-> AddLog([done EXCEPT !.signalingState = "have-remote-offer",
                                                   !.pendingRemote = TRUE],
                                      "error"),
                        answer |-> FALSE]
             ELSE [tp |-> Answered(done), answer |-> TRUE]

handleOffer(p) ==
    /\ ReceivedDescription(p, "offer")
    /\ testPage[p].signalingState # "none"
    /\ LET handled == OfferHandled(testPage[p], testPage[p].handlerPolite)
       IN  /\ testPage' = [testPage EXCEPT ![p] = handled.tp]
           /\ toRelay' = IF handled.answer
                         THEN Emit(toRelay, p, [ev |-> "signal",
                                                targetUserId |-> remoteUserIdRef[p],
                                                signal |-> [type |-> "answer"]])
                         ELSE toRelay
    /\ UNCHANGED <<relayVars, media, page, localStream, streamRef, peersRef, peerObjs, early>>

\* Fault variant: an answer that cannot be applied closes the connection.
AnswerHandledCloses(tp) ==
    IF tp.signalingState = "have-local-offer"
    THEN AddLog([tp EXCEPT !.signalingState = "stable", !.makingOffer = FALSE,
                           !.currentRemote = TRUE], "answer-set")
    ELSE AddLog([tp EXCEPT !.signalingState = "closed", !.makingOffer = FALSE], "error")

\* what handleAnswer leaves of the page: the answer applied, or the rejection
\* of setRemoteDescription caught and logged
AnswerHandled(tp) ==
    IF tp.signalingState = "have-local-offer"
    THEN AddLog([tp EXCEPT !.signalingState = "stable", !.makingOffer = FALSE,
                           !.currentRemote = TRUE], "answer-set")
    ELSE AddLog([tp EXCEPT !.makingOffer = FALSE], "error")

\* handleAnswer: setRemoteDescription(answer) needs a pending local offer
handleAnswer(p) ==
    /\ ReceivedDescription(p, "answer")
    /\ testPage[p].signalingState # "none"
    /\ testPage' = [testPage EXCEPT ![p] = AnswerHandled(@)]
    /\ UNCHANGED <<relayVars, media, page, localStream, streamRef, peersRef, peerObjs,
                   toRelay, early>>

\* pc.remoteDescription is not null
HasRemoteDescription(tp) == tp.pendingRemote \/ tp.currentRemote

\* pc.onicecandidate: a gathered candidate is sent to the remote user
onicecandidate(p) ==
    /\ testPage[p].gathering
    /\ testPage[p].iceSent < MaxCandidates
    /\ testPage' = [testPage EXCEPT ![p].iceSent = @ + 1]
    /\ toRelay' = Emit(toRelay, p, [ev |-> "signal",
                                    targetUserId |-> remoteUserIdRef[p],
                                    signal |-> [type |-> "candidate",
                                                candidate |-> testPage[p].iceSent + 1]])
    /\ UNCHANGED <<relayVars, media, page, localStream, streamRef, peersRef, peerObjs,
                   inbox, early>>

\* Fault variant: a candidate that cannot be added yet is kept as if applied.
IceCandidateHandledKeeps(tp, candidate) ==
    [tp EXCEPT !.iceReceived = Append(@, candidate), !.iceApplied = Append(@, candidate)]

\* what handleIceCandidate leaves of the page: pc.addIceCandidate applies the
\* candidate when a remote description is set and is rejected otherwise; the
\* rejection is logged unless the last offer was ignored
IceCandidateHandled(tp, candidate) ==
    LET got == [tp EXCEPT !.iceReceived = Append(@, candidate)]
    IN  IF HasRemoteDescription(tp)
        THEN [got EXCEPT !.iceApplied = Append(@, candidate)]
        ELSE IF tp.ignoreOffer THEN got ELSE AddLog(got, "ice-error")

handleIceCandidate(p) ==
    /\ ReceivedDescription(p, "candidate")
    /\ testPage[p].signalingState # "none"
    /\ testPage' = [testPage EXCEPT ![p] =
                       IceCandidateHandled(@, Head(inbox[p]).body.signal.candidate)]
    /\ UNCHANGED <<relayVars, media, page, localStream, streamRef, peersRef, peerObjs,
                   toRelay, early>>

NextGlare ==
    \/ \E p \in Pages : initiateConnection(p)
    \/ \E p \in Pages : OfferCreated(p)
    \/ \E p \in Pages : handleOffer(p)
    \/ \E p \in Pages : handleAnswer(p)
    \/ \E p \in Pages : onicecandidate(p)
    \/ \E p \in Pages : handleIceCandidate(p)
    \/ \E c \in Pages : TakeSignal(c)

SpecGlare == InitGlare /\ [][NextGlare]_vars

\* WebRTCSignalingService alone.  A relayed signal payload: its type field, and
\* its candidate field, which is absent, the empty string (end of candidates)
\* or a candidate line.
SignalPayloads ==
    {[type |-> t, candidate |-> c] :
        t \in {"offer", "answer", "none"}, c \in {"absent", "empty", "present"}}

\* the message type the 'signal' listener gives a payload: 'offer' unless one
\* of the tests replaces it; signal.candidate is truthy for a candidate line only
messageTypeOf(signal) ==
    IF signal.type = "offer" THEN "offer"
    ELSE IF signal.type = "answer" THEN "answer"
         ELSE IF signal.candidate = "present" THEN "ice-candidate"
              ELSE "offer"

\* socket.on('signal') and handleMessage: the handlers registered for the
\* message type run; each of the page's handlers starts by logging what it
\* received
OnServiceSignal(p) ==
    /\ Received(p, "signal")
    /\ testPage' = [testPage EXCEPT ![p] =
                       AddLog(@, messageTypeOf(Head(inbox[p]).body.signal))]
    /\ UNCHANGED <<relayVars, media, page, localStream, streamRef, peersRef, peerObjs,
                   toRelay, early>>

NextDispatch ==
    \/ \E s \in SignalPayloads :
          HookArrives(Msg(HookPage, "signal", [fromUserId |-> "u2", signal |-> s]))
    \/ OnServiceSignal(HookPage)

SpecDispatch == InitGlare /\ [][NextDispatch]_vars

\* fair delivery between the two tabs; the Send Offer clicks are not forced
SpecGlareFair ==
    SpecGlare /\ \A p \in Pages : /\ WF_vars(OfferCreated(p))
                                  /\ WF_vars(handleOffer(p))
                                  /\ WF_vars(handleAnswer(p))
                                  /\ WF_vars(onicecandidate(p))
                                  /\ WF_vars(handleIceCandidate(p))
                                  /\ WF_vars(TakeSignal(p))

\* ------------------------------------------ the test page's Polite checkbox
\* The two tabs with the checkbox left to the user: each tab connected with
\* the checkbox as it then stood, and the user may change it afterwards.
InitRoles ==
    /\ rooms = JoinRooms(JoinRooms(<<>>, 1, PageRoomId, PageUserId[1], PageUserId[1]),
                         2, PageRoomId, PageUserId[2], PageUserId[2])
    /\ sioRooms = SioJoin(SioJoin([r \in RoomIds |-> {}], 1, PageRoomId), 2, PageRoomId)
    /\ connState = [c \in Conns |-> IF c \in Pages THEN "connected" ELSE "new"]
    /\ relayUp = TRUE
    /\ last = NoEvent
    /\ joined = [r \in RoomIds, u \in UserIds |->
                    IF r = PageRoomId THEN CHOOSE p \in Pages : PageUserId[p] = u
                    ELSE NoConn]
    /\ departed = {}
    /\ nEvents = 0
    /\ page = [p \in Pages |-> "open"]
    /\ localStream = [p \in Pages |-> 0]
    /\ streamRef = [p \in Pages |-> 0]
    /\ peersRef = [p \in Pages |-> [u \in UserIds |-> 0]]
    /\ peerObjs = [p \in Pages |-> <<>>]
    /\ toRelay = [c \in Conns |-> <<>>]
    /\ inbox = [c \in Conns |-> <<>>]
    /\ early = [p \in Pages |-> [u \in UserIds |-> [pending |-> <<>>, stale |-> <<>>, lefts |-> 0, refused |-> 0]]]
    /\ testPage \in [Pages -> {TabReady(polite) : polite \in BOOLEAN}]
    /\ media = [p \in Pages |-> NoMedia]

\* the Polite checkbox: setIsPolite(e.target.checked); the handlers registered
\* at connect time keep the value they were created with
setIsPolite(p) ==
    /\ testPage' = [testPage EXCEPT ![p].isPolite = ~@]
    /\ UNCHANGED <<relayVars, media, page, localStream, streamRef, peersRef, peerObjs,
                   toRelay, inbox, early>>

NextRoles ==
    \/ \E p \in Pages : setIsPolite(p)
    \/ \E p \in Pages : initiateConnection(p)
    \/ \E p \in Pages : OfferCreated(p)
    \/ \E p \in Pages : handleOffer(p)
    \/ \E p \in Pages : handleAnswer(p)
    \/ \E p \in Pages : onicecandidate(p)
    \/ \E p \in Pages : handleIceCandidate(p)
    \/ \E c \in Pages : TakeSignal(c)

SpecRoles == InitRoles /\ [][NextRoles]_vars

\* ------------------------------------------------------- useMediaStream
\* Each page's useMediaStream: MediaStream objects hold tracks by reference,
\* so a track is an index into m.tracks and a stream object a sequence of them.
MaxShares == 2

Track(kind, source) == [kind |-> kind, source |-> source, enabled |-> TRUE, readyState |-> "live"]

\* stream.getVideoTracks() / getAudioTracks() of stream object s
TracksOfKind(m, s, kind) == SelectSeq(m.streams[s], LAMBDA t : m.tracks[t].kind = kind)

RemoveTrack(tracks, t) == SelectSeq(tracks, LAMBDA x : x # t)

\* stream.addTrack(t): no effect when the stream already has the track
AddTrack(tracks, t) ==
    IF \E i \in 1..Len(tracks) : tracks[i] = t THEN tracks ELSE Append(tracks, t)

\* setStream(new MediaStream(stream.getTracks())) for stream object s
NewMediaStream(m, s) ==
    [m EXCEPT !.streams = Append(@, m.streams[s]), !.stream = Len(m.streams) + 1]

\* getUserMedia resolves: one stream object, held by both stream and userStreamRef
getStream(p) ==
    /\ page[p] = "open"
    /\ media[p].stream = 0
    /\ media' = [media EXCEPT ![p] =
                    [@ EXCEPT !.tracks = <<Track("audio", "microphone"),
                                           Track("video", "camera")>>,
                              !.streams = <<<<1, 2>>>>,
                              !.stream = 1,
                              !.userStreamRef = 1]]
    /\ UNCHANGED <<relayVars, testPage, page, localStream, streamRef, peersRef, peerObjs,
                   toRelay, inbox, early>>

\* toggleAudio / toggleVideo: flips enabled on the stream's first track of the kind
Toggled(m, kind) ==
    IF m.stream = 0 \/ TracksOfKind(m, m.stream, kind) = <<>> THEN m
    ELSE [m EXCEPT !.tracks[TracksOfKind(m, m.stream, kind)[1]].enabled = ~@]

toggleAudio(p) ==
    /\ page[p] = "open"
    /\ media[p].stream # 0
    /\ media' = [media EXCEPT ![p] = Toggled(@, "audio")]
    /\ UNCHANGED <<relayVars, testPage, page, localStream, streamRef, peersRef, peerObjs,
                   toRelay, inbox, early>>

toggleVideo(p) ==
    /\ page[p] = "open"
    /\ media[p].stream # 0
    /\ media' = [media EXCEPT ![p] = Toggled(@, "video")]
    /\ UNCHANGED <<relayVars, testPage, page, localStream, streamRef, peersRef, peerObjs,
                   toRelay, inbox, early>>

\* startScreenShare after getDisplayMedia resolved: the screen track replaces
\* the video track in the current stream object, a copy becomes the stream
ScreenShareStarted(m) ==
    LET screenTrack == Len(m.tracks) + 1
        videoTrack == TracksOfKind(m, m.stream, "video")[1]
        got == [m EXCEPT !.tracks = Append(@, Track("video", "screen")),
                         !.onended = m.stream, !.shares = @ + 1]
    IN  IF m.stream # 0 /\ m.userStreamRef # 0
        THEN [NewMediaStream(
                 [got EXCEPT !.streams[m.stream] =
                                 AddTrack(RemoveTrack(@, videoTrack), screenTrack)],
                 m.stream)
              EXCEPT !.isScreenSharing = TRUE]
        ELSE got

\* stopScreenShare as closed over stream object s: the screen track is stopped
\* and the video track of userStreamRef.current put in its place
ScreenShareStopped(m, s) ==
    LET screenTrack == TracksOfKind(m, s, "video")[1]
        cameraTrack == TracksOfKind(m, m.userStreamRef, "video")[1]
    IN  IF s # 0 /\ m.userStreamRef # 0
        THEN [NewMediaStream(
                 [m EXCEPT !.tracks[screenTrack].readyState = "ended",
                           !.streams[s] = AddTrack(RemoveTrack(@, screenTrack), cameraTrack)],
                 s)
              EXCEPT !.isScreenSharing = FALSE]
        ELSE m

\* the share button while not sharing
startScreenShare(p) ==
    /\ page[p] = "open"
    /\ media[p].stream # 0
    /\ ~media[p].isScreenSharing
    /\ media[p].shares < MaxShares
    /\ media' = [media EXCEPT ![p] = ScreenShareStarted(@)]
    /\ UNCHANGED <<relayVars, testPage, page, localStream, streamRef, peersRef, peerObjs,
                   toRelay, inbox, early>>

\* the share button while sharing
stopScreenShare(p) ==
    /\ page[p] = "open"
    /\ media[p].isScreenSharing
    /\ media' = [media EXCEPT ![p] = ScreenShareStopped(@, @.stream)]
    /\ UNCHANGED <<relayVars, testPage, page, localStream, streamRef, peersRef, peerObjs,
                   toRelay, inbox, early>>

\* screenTrack.onended (the browser's "Stop sharing"): stopScreenShare of the
\* render that started the share, closed over the stream object of that render
ScreenTrackEnded(p) ==
    /\ page[p] = "open"
    /\ media[p].isScreenSharing
    /\ media[p].onended # 0
    /\ media[p].tracks[Len(media[p].tracks)].readyState = "live"
    /\ media' = [media EXCEPT ![p] =
                    ScreenShareStopped(
                        [@ EXCEPT !.tracks[Len(@.tracks)].readyState = "ended"],
                        @.onended)]
    /\ UNCHANGED <<relayVars, testPage, page, localStream, streamRef, peersRef, peerObjs,
                   toRelay, inbox, early>>

NextMedia ==
    \/ \E p \in Pages : getStream(p)
    \/ \E p \in Pages : toggleAudio(p)
    \/ \E p \in Pages : toggleVideo(p)
    \/ \E p \in Pages : startScreenShare(p)
    \/ \E p \in Pages : stopScreenShare(p)
    \/ \E p \in Pages : ScreenTrackEnded(p)

SpecMedia == Init /\ [][NextMedia]_vars

\* ================================================================ claims
\* What the claims speak of, read off the registry and the last event.
MemberIds(rs, roomId) == {RoomsGet(rs, roomId)[i].userId : i \in 1..Len(RoomsGet(rs, roomId))}

MemberConns(rs, roomId) == {RoomsGet(rs, roomId)[i].socketId : i \in 1..Len(RoomsGet(rs, roomId))}

ConnsOfUser(rs, userId) ==
    {AllEntries(rs, 1)[i].socketId : i \in {j \in 1..Len(AllEntries(rs, 1)) :
                                              AllEntries(rs, 1)[j].userId = userId}}

UsersOfConn(rs, c) ==
    {AllEntries(rs, 1)[i].userId : i \in {j \in 1..Len(AllEntries(rs, 1)) :
                                            AllEntries(rs, 1)[j].socketId = c}}

\* the messages of the last event sent to connection c under event name ev
MsgsTo(c, ev) == SelectSeq(last.out, LAMBDA m : m.to = c /\ m.ev = ev)

UserLeftTo(c, userId) ==
    SelectSeq(last.out, LAMBDA m : m.to = c /\ m.ev = "user-left" /\ m.body.userId = userId)

\* C1: after any sequence of join-room, leave-room and disconnect events, the
\* userIds the registry holds for a room are exactly those whose latest join of
\* that room was followed by no leave-room for them and no drop of the joining
\* connection.
C1_MembershipConsistency ==
    \A r \in RoomIds : MemberIds(rooms, r) = {u \in UserIds : joined[r, u] # NoConn}

C1_Witness ==
    /\ last.kind \in {"leave-room", "disconnect"}
    /\ \E r \in RoomIds :
         /\ MemberIds(rooms, r) # {}
         /\ MemberIds(rooms, r) # MemberIds(last.preRooms, r)

\* C2: between two pages of a room at most one initial offer is outstanding:
\* counting, in both directions, the initiator peers that have emitted their
\* offer and have not been destroyed, the pair never has more than one, so the
\* later joiner never initiates beside the incumbent's offer and the incumbent
\* never offers to the same participant twice.
OffersAlive(a, b) ==
    Cardinality({i \in 1..Len(peerObjs[a]) :
                    /\ peerObjs[a][i].to = PageUserId[b]
                    /\ peerObjs[a][i].initiator
                    /\ peerObjs[a][i].st \in {"offered", "connected"}})

C2_InitiatorUniqueness ==
    \A a, b \in Pages : a # b => OffersAlive(a, b) + OffersAlive(b, a) <= 1

\* C3: a join of a room with no members emits room-joined {isFirst: true} to
\* the joiner and nothing else: no existing-users, no user-joined to anyone.
C3_FirstJoinerToldAlone ==
    (last.kind = "join-room" /\ MemberIds(last.preRooms, last.roomId) = {})
        => last.out = <<Msg(last.conn, "room-joined", [isFirst |-> TRUE])>>

C3_Witness ==
    /\ last.kind = "join-room"
    /\ MemberIds(last.preRooms, last.roomId) = {}
    /\ Len(last.preRooms) > 0
    /\ last.out = <<Msg(last.conn, "room-joined", [isFirst |-> TRUE])>>

\* C4: a join of a room that has members sends the joiner exactly one
\* existing-users listing exactly the members present before the join, sends
\* the connection of every member registered under another userId exactly one
\* user-joined with the new member's userId and userName, and sends the joiner
\* no user-joined.
IncumbentConns(rs, roomId, userId, c) ==
    {RoomsGet(rs, roomId)[i].socketId :
        i \in {j \in 1..Len(RoomsGet(rs, roomId)) : RoomsGet(rs, roomId)[j].userId # userId}} \ {c}

C4_JoinFanOut ==
    (last.kind = "join-room" /\ MemberIds(last.preRooms, last.roomId) # {}) =>
        /\ MsgsTo(last.conn, "existing-users")
             = <<Msg(last.conn, "existing-users",
                     UserList(RoomsGet(last.preRooms, last.roomId)))>>
        /\ \A d \in IncumbentConns(last.preRooms, last.roomId, last.userId, last.conn) :
             MsgsTo(d, "user-joined")
               = <<Msg(d, "user-joined", [userId |-> last.userId, userName |-> last.userName])>>
        /\ MsgsTo(last.conn, "user-joined") = <<>>

\* C5: a signal from a registered member to a registered targetUserId makes
\* the relay emit exactly one message: a signal to a connection the target
\* userId is bound to, with a userId of the sender as fromUserId and the
\* payload as received.
C5_SignalForwarded ==
    (/\ last.kind = "signal"
     /\ UsersOfConn(last.preRooms, last.conn) # {}
     /\ ConnsOfUser(last.preRooms, last.userId) # {}) =>
        /\ Len(last.out) = 1
        /\ last.out[1].ev = "signal"
        /\ last.out[1].to \in ConnsOfUser(last.preRooms, last.userId)
        /\ last.out[1].body.fromUserId \in UsersOfConn(last.preRooms, last.conn)
        /\ last.out[1].body.signal = last.signal

C5_Witness ==
    /\ last.kind = "signal"
    /\ Len(last.out) = 1
    /\ last.out[1].to # last.conn
    /\ Len(last.preRooms) = 2

\* C6: a signal whose targetUserId is in no room emits nothing, leaves the
\* registry and the socket.io rooms as they were, and leaves the relay running.
C6_RoutingMissDropped ==
    (last.kind = "signal" /\ ConnsOfUser(last.preRooms, last.userId) = {}) =>
        /\ last.out = <<>>
        /\ rooms = last.preRooms
        /\ sioRooms = last.preSio
        /\ relayUp

C6_Witness ==
    /\ last.kind = "signal"
    /\ ConnsOfUser(last.preRooms, last.userId) = {}
    /\ UsersOfConn(last.preRooms, last.conn) # {}
    /\ departed # {}

\* C7: when member X leaves a room, by a leave-room of X's own connection or
\* by that connection dropping, every connection of a remaining member of the
\* room receives user-left for X, and X's own connection and connections that
\* hold no member of a room X left receive none.
RemovedFrom(roomId) ==
    IF last.kind = "leave-room"
    THEN IF /\ last.roomId = roomId
            /\ MapHas(RoomsGet(last.preRooms, roomId), last.userId)
            /\ MapGet(RoomsGet(last.preRooms, roomId), last.userId).socketId = last.conn
         THEN {last.userId} ELSE {}
    ELSE IF last.kind = "disconnect"
         THEN {u \in MemberIds(last.preRooms, roomId) :
                 MapGet(RoomsGet(last.preRooms, roomId), u).socketId = last.conn}
         ELSE {}

RoomsLeftBy(x) == {r \in RoomIds : x \in RemovedFrom(r)}

C7_UserLeftReachesRoom ==
    \A x \in UserIds :
        RoomsLeftBy(x) # {} =>
            /\ \A r \in RoomsLeftBy(x) :
                 \A d \in MemberConns(last.preRooms, r) \ {last.conn} :
                     Len(UserLeftTo(d, x)) >= 1
            /\ UserLeftTo(last.conn, x) = <<>>
            /\ \A d \in Conns :
                 (/\ Len(UserLeftTo(d, x)) >= 1
                  /\ \A r \in RoomsLeftBy(x) : d \notin MemberConns(last.preRooms, r))
                     => \A r \in RoomIds : d \notin MemberConns(last.preRooms, r)

\* C8: a disconnect cleans up as explicit leaves would: afterwards no room
\* holds a member bound to the dropped connection and no room is left empty,
\* and the registry and the user-left messages are those that a leave-room by
\* that connection for each of its memberships, in every room it belonged to,
\* would have produced.
RECURSIVE MembershipsOf(_, _, _)
MembershipsOf(rs, c, i) ==
    IF i > Len(rs) THEN <<>>
    ELSE LET mine == SelectSeq(rs[i].users, LAMBDA e : e.socketId = c)
         IN  [j \in 1..Len(mine) |-> [roomId |-> rs[i].id, userId |-> mine[j].userId]]
             \o MembershipsOf(rs, c, i + 1)

RECURSIVE LeaveEach(_, _, _, _, _)
LeaveEach(rs, sio, c, ms, k) ==
    IF k > Len(ms) THEN [rooms |-> rs, out |-> <<>>]
    ELSE LET rest == LeaveEach(LeaveRooms(rs, ms[k].roomId, ms[k].userId),
                               LeaveSio(rs, sio, c, ms[k].roomId), c, ms, k + 1)
         IN  [rooms |-> rest.rooms,
              out |-> LeaveOut(rs, sio, c, ms[k].roomId, ms[k].userId) \o rest.out]

C8_DisconnectCleansUpAsLeave ==
    last.kind = "disconnect" =>
        LET asLeaves == LeaveEach(last.preRooms, last.preSio, last.conn,
                                  MembershipsOf(last.preRooms, last.conn, 1), 1)
        IN  /\ UsersOfConn(rooms, last.conn) = {}
            /\ \A i \in 1..Len(rooms) : Len(rooms[i].users) > 0
            /\ rooms = asLeaves.rooms
            /\ last.out = asLeaves.out

C8_Witness ==
    /\ last.kind = "disconnect"
    /\ Len(MembershipsOf(last.preRooms, last.conn, 1)) = 2
    /\ Len(last.preRooms) = 2
    /\ Len(rooms) = 1
    /\ Len(last.out) >= 1

\* C9: a leave-room for a userId that has already departed from the room (by
\* an earlier leave-room or by its connection dropping) emits no further
\* user-left for it and changes nothing in the registry.
C9_DepartureIdempotent ==
    (/\ last.kind = "leave-room"
     /\ <<last.roomId, last.userId>> \in departed
     /\ last.userId \notin MemberIds(last.preRooms, last.roomId)) =>
        /\ \A d \in Conns : UserLeftTo(d, last.userId) = <<>>
        /\ rooms = last.preRooms

\* C10: leave-room naming a room that does not exist, or a userId that is not
\* a member of the named room, changes nothing in the registry and emits no
\* message.
C10_LeaveOfNonMemberNoOp ==
    (/\ last.kind = "leave-room"
     /\ last.userId \notin MemberIds(last.preRooms, last.roomId)) =>
        /\ rooms = last.preRooms
        /\ last.out = <<>>

\* C11: a join-room naming a userId the room already holds replaces that
\* member: afterwards the room has exactly one entry for the userId, bound to
\* the joining socket and carrying the joining display name, and as many
\* entries as before.
EntriesOf(rs, roomId, userId) ==
    SelectSeq(RoomsGet(rs, roomId), LAMBDA e : e.userId = userId)

C11_RejoinReplacesMember ==
    (last.kind = "join-room" /\ last.userId \in MemberIds(last.preRooms, last.roomId)) =>
        /\ EntriesOf(rooms, last.roomId, last.userId)
             = <<[socketId |-> last.conn, userId |-> last.userId, userName |-> last.userName]>>
        /\ Len(RoomsGet(rooms, last.roomId)) = Len(RoomsGet(last.preRooms, last.roomId))

C11_Witness ==
    /\ last.kind = "join-room"
    /\ last.userId \in MemberIds(last.preRooms, last.roomId)
    /\ MapGet(RoomsGet(last.preRooms, last.roomId), last.userId).socketId # last.conn
    /\ Len(RoomsGet(rooms, last.roomId)) = 2

\* C12: after every relay event a room is in the registry exactly when some
\* userId has joined it and not left or been dropped since; no registered
\* room has zero members, and a join-room leaves the room it names registered.
C12_RoomExistsWhileOccupied ==
    /\ \A r \in RoomIds : RoomsHas(rooms, r) <=> (\E u \in UserIds : joined[r, u] # NoConn)
    /\ \A i \in 1..Len(rooms) : Len(rooms[i].users) > 0
    /\ last.kind = "join-room" => RoomsHas(rooms, last.roomId)

C12_Witness ==
    /\ last.kind \in {"leave-room", "disconnect"}
    /\ Len(last.preRooms) = 2
    /\ Len(rooms) = 1
    /\ \E r \in RoomIds : RoomsHas(last.preRooms, r) /\ ~RoomsHas(rooms, r)

\* C13: in every registry state a userId occurs at most once within a room,
\* and every socket that is registered at all is bound to exactly one member:
\* one userId, in one room.
BindingsOf(rs, c) == SelectSeq(AllEntries(rs, 1), LAMBDA e : e.socketId = c)

C13_UniqueBinding ==
    /\ \A r \in RoomIds, u \in UserIds : Len(EntriesOf(rooms, r, u)) <= 1
    /\ \A c \in Conns : Len(BindingsOf(rooms, c)) <= 1

\* C14: when a peer is created for a userId whose signals arrived earlier and
\* found no peer, the new peer has been handed exactly those signals, in their
\* order of arrival.
C14_EarlySignalsApplied ==
    [][\A p \in Pages, u \in UserIds :
          (/\ peersRef[p][u] = 0
           /\ peersRef'[p][u] # 0
           /\ early[p][u].pending # <<>>)
              => peerObjs'[p][peersRef'[p][u]].got = early[p][u].pending]_vars

\* C15: a peer never receives a signal that arrived before it was created: a
\* new peer has been handed nothing, a peer is only ever handed the signal
\* that is arriving, and a user-left for a userId without peer leaves no peer
\* and no reference for it.
C15_NoStaleSignals ==
    [][\A p \in Pages :
          /\ \A i \in 1..Len(peerObjs'[p]) :
                IF i > Len(peerObjs[p])
                THEN peerObjs'[p][i].got = <<>>
                ELSE \/ peerObjs'[p][i].got = peerObjs[p][i].got
                     \/ /\ inbox[p] # <<>>
                        /\ Head(inbox[p]).ev = "signal"
                        /\ peerObjs'[p][i].to = Head(inbox[p]).body.fromUserId
                        /\ peerObjs'[p][i].got
                             = Append(peerObjs[p][i].got, Head(inbox[p]).body.signal)
          /\ \A u \in UserIds :
                (/\ inbox[p] # <<>>
                 /\ Head(inbox[p]).ev = "user-left"
                 /\ Head(inbox[p]).body.userId = u
                 /\ inbox'[p] = Tail(inbox[p])
                 /\ peersRef[p][u] = 0)
                    => peersRef'[p] = peersRef[p] /\ peerObjs'[p] = peerObjs[p]]_vars

C15_Witness ==
    \E u \in UserIds :
        /\ early[HookPage][u].stale # <<>>
        /\ peersRef[HookPage][u] # 0
        /\ peerObjs[HookPage][peersRef[HookPage][u]].got = <<[type |-> "offer"]>>
        /\ Len(peerObjs[HookPage]) = 1

\* C20: a malformed message from one connection never stops the relay: after
\* it the relay is still serving events and the registry of rooms is as it
\* was before the message.
C20_MalformedTolerated ==
    last.kind = "malformed" => (relayUp /\ rooms = last.preRooms)

\* the connection objects page p has created for userId and not destroyed
UndestroyedFor(p, userId) ==
    {i \in 1..Len(peerObjs[p]) :
        peerObjs[p][i].to = userId /\ peerObjs[p][i].st # "destroyed"}

\* C19: a client never holds two undestroyed connection objects for the same
\* remote userId.
C19_OnePeerPerUser ==
    \A p \in Pages, u \in UserIds : Cardinality(UndestroyedFor(p, u)) <= 1

\* the relay has just registered page b's user in a room where page a's user is
JoinsRoomOf(a, b) ==
    /\ last.kind = "join-room"
    /\ last.conn = b
    /\ last.userId = PageUserId[b]
    /\ ~MapHas(RoomsGet(last.preRooms, last.roomId), PageUserId[b])
    /\ MapHas(RoomsGet(last.preRooms, last.roomId), PageUserId[a])
    /\ MapGet(RoomsGet(last.preRooms, last.roomId), PageUserId[a]).socketId = a

\* page b's connection for page a's user has taken an offer
OfferApplied(a, b) ==
    LET peer == peersRef[b][PageUserId[a]]
    IN  /\ peer # 0
        /\ ~peerObjs[b][peer].initiator
        /\ peerObjs[b][peer].st \in {"remoteOffer", "answered"}

\* page a's connection for page b's user has offered and taken the answer
AnswerApplied(a, b) ==
    LET peer == peersRef[a][PageUserId[b]]
    IN  /\ peer # 0
        /\ peerObjs[a][peer].initiator
        /\ peerObjs[a][peer].st = "connected"

\* C18: when B joins a room A is in and neither leaves, then under fair
\* delivery A's offer is eventually applied to B's connection for A and B's
\* answer to A's connection for B.
C18_OfferAnswerExchanged ==
    \A a \in Pages : \A b \in Pages \ {a} :
        JoinsRoomOf(a, b)
            ~> \/ page[a] # "open"
               \/ page[b] # "open"
               \/ OfferApplied(a, b) /\ AnswerApplied(a, b)

\* page p takes the next description of its queue, an offer
TakesOffer(p) ==
    /\ inbox[p] # <<>>
    /\ Head(inbox[p]).ev = "signal"
    /\ Head(inbox[p]).body.signal.type = "offer"
    /\ inbox'[p] = Tail(inbox[p])

\* C16: when an offer reaches a side whose own offer is emitted and unanswered,
\* the impolite side leaves it unaccepted and keeps its own offer, and the
\* polite side rolls its own offer back without an error and accepts and
\* answers the incoming one: only the impolite side's offer is accepted.
C16_GlareResolved ==
    [][\A p \in Pages :
          (TakesOffer(p) /\ testPage[p].signalingState = "have-local-offer")
              => IF isPolite[p]
                 THEN /\ testPage'[p].signalingState = "stable"
                      /\ testPage'[p].logs = Append(testPage[p].logs, "rollback")
                      /\ toRelay'[p] = Append(toRelay[p],
                                              [ev |-> "signal",
                                               targetUserId |-> remoteUserIdRef[p],
                                               signal |-> [type |-> "answer"]])
                 ELSE /\ testPage'[p].signalingState = "have-local-offer"
                      /\ testPage'[p].ignoreOffer
                      /\ toRelay'[p] = toRelay[p]]_vars

\* both offers crossed: the impolite tab ignored one and got its answer, the
\* polite tab rolled back, and both connections are stable
C16_Witness ==
    /\ testPage[1].logs = <<"ignored", "answer-set">>
    /\ testPage[2].logs = <<"rollback">>
    /\ \A p \in Pages : testPage[p].signalingState = "stable"

\* both tabs have a negotiation of their own under way
BothRenegotiating == \A p \in Pages : testPage[p].makingOffer

\* no tab has an offer in the making or unanswered
Settled ==
    \A p \in Pages : /\ testPage[p].signalingState = "stable"
                     /\ ~testPage[p].makingOffer
                     /\ testPage[p].creating = 0

\* C17: when both tabs renegotiate at once, both connections are eventually
\* back in the stable signaling state, no tab left with an unanswered offer.
C17_BothReturnToStable == BothRenegotiating ~> Settled

\* the registry entries of room roomId bound to socket c
EntriesOfConn(rs, roomId, c) ==
    {RoomsGet(rs, roomId)[i] : i \in {j \in 1..Len(RoomsGet(rs, roomId)) :
                                        RoomsGet(rs, roomId)[j].socketId = c}}

\* C21: a chat-message sent by a member of room R reaches every other
\* connection of R exactly once, tagged with the sender's userId and userName,
\* and reaches neither the sender nor a connection outside R.
C21_ChatReachesRoomOnce ==
    (last.kind = "chat-message" /\ EntriesOfConn(last.preRooms, last.roomId, last.conn) # {})
        => /\ \A d \in MemberConns(last.preRooms, last.roomId) \ {last.conn} :
                Cardinality({i \in 1..Len(last.out) : last.out[i].to = d}) = 1
           /\ \A i \in 1..Len(last.out) :
                /\ last.out[i].ev = "chat-message"
                /\ last.out[i].to \in MemberConns(last.preRooms, last.roomId) \ {last.conn}
                /\ \E e \in EntriesOfConn(last.preRooms, last.roomId, last.conn) :
                      /\ last.out[i].body.userId = e.userId
                      /\ last.out[i].body.userName = e.userName

\* the video track the page's local stream shows (source "none" without one)
LocalVideoSource(p) ==
    IF TracksOfKind(media[p], media[p].stream, "video") = <<>> THEN "none"
    ELSE media[p].tracks[TracksOfKind(media[p], media[p].stream, "video")[1]].source

\* C22: while sharing, the local stream's video track is the screen track, and
\* once sharing has stopped it is the camera track again.
C22_ScreenShareRoundTrip ==
    \A p \in Pages :
        media[p].stream # 0
            => LocalVideoSource(p) = IF media[p].isScreenSharing THEN "screen" ELSE "camera"

\* an offer reaching tab p collides with a negotiation of its own
OfferCollides(p) == testPage[p].makingOffer \/ testPage[p].signalingState # "stable"

\* C23: on an offer collision the impolite side discards the incoming offer,
\* keeps its signaling state and emits no answer; the polite side rolls back,
\* applies the incoming offer and emits exactly one answer.
C23_CollisionPolicy ==
    [][\A p \in Pages :
          (TakesOffer(p) /\ OfferCollides(p))
              => IF isPolite[p]
                 THEN /\ testPage'[p].signalingState = "stable"
                      /\ testPage'[p].logs = Append(testPage[p].logs, "rollback")
                      /\ toRelay'[p] = Append(toRelay[p],
                                              [ev |-> "signal",
                                               targetUserId |-> remoteUserIdRef[p],
                                               signal |-> [type |-> "answer"]])
                 ELSE /\ testPage'[p].signalingState = testPage[p].signalingState
                      /\ toRelay'[p] = toRelay[p]]_vars

\* tab p has made an offer and the other tab none: p is the initiator
Initiates(p) == testPage[p].offers > 0 /\ \A q \in Pages \ {p} : testPage[q].offers = 0

\* C24: of the two tabs that negotiate exactly one is polite, and the tab that
\* initiates is the impolite one.
C24_RolesAssigned ==
    /\ Cardinality({p \in Pages : testPage[p].handlerPolite}) = 1
    /\ \A p \in Pages : Initiates(p) => ~testPage[p].handlerPolite

\* page p takes the next description of its queue, an answer
TakesAnswer(p) ==
    /\ inbox[p] # <<>>
    /\ Head(inbox[p]).ev = "signal"
    /\ Head(inbox[p]).body.signal.type = "answer"
    /\ inbox'[p] = Tail(inbox[p])

\* C25: an answer that arrives while no local offer is outstanding is ignored:
\* the connection stays open in the signaling state it had, nothing is sent,
\* and the signals queued behind the answer remain to be processed.
C25_StrayAnswerIgnored ==
    [][\A p \in Pages :
          (TakesAnswer(p) /\ testPage[p].signalingState # "have-local-offer")
              => /\ testPage'[p].signalingState = testPage[p].signalingState
                 /\ testPage'[p].signalingState # "closed"
                 /\ testPage'[p].creating = testPage[p].creating
                 /\ toRelay'[p] = toRelay[p]]_vars

\* a tab whose connection is stable has just logged the rejection of an answer
C25_Witness ==
    \E p \in Pages :
        /\ testPage[p].logs # <<>>
        /\ testPage[p].logs[Len(testPage[p].logs)] = "error"
        /\ testPage[p].signalingState = "stable"

\* C26: an ICE candidate that arrives before the remote description is set is
\* not dropped: once a remote description is set, every candidate received so
\* far has been applied, in arrival order.
C26_EarlyCandidatesKept ==
    \A p \in Pages :
        HasRemoteDescription(testPage[p]) => testPage[p].iceApplied = testPage[p].iceReceived

\* A user-left event at the head of page p's inbox is being handled.
TakesUserLeft(p) ==
    /\ inbox[p] # <<>>
    /\ Head(inbox[p]).ev = "user-left"
    /\ inbox'[p] = Tail(inbox[p])
    /\ page'[p] = page[p]

\* C27: closing a link is idempotent.  Handling user-left for a userId whose
\* link is already closed changes neither the connection registry nor any
\* connection object, and no step (a repeated user-left, or the teardown that
\* follows a user-left) calls destroy a second time on a connection object.
C27_CloseIdempotent ==
    [][\A p \in Pages :
          /\ \A i \in 1..Len(peerObjs'[p]) : peerObjs'[p][i].destroys <= 1
          /\ (TakesUserLeft(p) /\ peersRef[p][Head(inbox[p]).body.userId] = 0)
                => /\ peerObjs'[p] = peerObjs[p]
                   /\ peersRef'[p] = peersRef[p]]_vars

\* user-left was handled twice for a userId whose connection object was
\* destroyed by the first, and the page was then torn down.
C27_Witness ==
    \E u \in UserIds :
        /\ early[HookPage][u].lefts = 2
        /\ page[HookPage] = "left"
        /\ Len(peerObjs[HookPage]) = 1
        /\ peerObjs[HookPage][1].to = u
        /\ peerObjs[HookPage][1].destroys = 1

\* C28: once a page has handled user-left for X it holds no undestroyed
\* connection object for X and X is absent from its connection registry;
\* once the page is torn down it holds no undestroyed connection object.
C28_ClosedLeavesNothing ==
    [][\A p \in Pages :
          /\ TakesUserLeft(p) =>
                LET leftUserId == Head(inbox[p]).body.userId
                IN  /\ \A i \in 1..Len(peerObjs'[p]) :
                            peerObjs'[p][i].to = leftUserId
                                => peerObjs'[p][i].st = "destroyed"
                    /\ peersRef'[p][leftUserId] = 0
          /\ (page[p] # "left" /\ page'[p] = "left") =>
                \A i \in 1..Len(peerObjs'[p]) : peerObjs'[p][i].st = "destroyed"]_vars

\* The connection objects page q holds for userId.
ObjectsFor(objs, userId) == {i \in 1..Len(objs) : objs[i].to = userId}

\* Page p changed its local stream while it held a link: a live connection
\* object in its registry was built on an earlier stream.
ChangedWhileLinked(p) ==
    \E u \in UserIds :
        /\ peersRef[p][u] # 0
        /\ peerObjs[p][peersRef[p][u]].stream < localStream[p]

\* C29: a change of page p's local video track while links exist creates and
\* destroys no connection object at any client: once p (which has not left)
\* has changed its stream while linked, no step adds a connection object at
\* p, none adds one for p at a page q holding a link to p, and a connection
\* object for p is destroyed at q only by q's own teardown.
C29_TrackChangeKeepsLinks ==
    [][\A p \in Pages :
          (ChangedWhileLinked(p) /\ page[p] = "open" /\ page'[p] = "open")
              => /\ Len(peerObjs'[p]) = Len(peerObjs[p])
                 /\ \A q \in Pages \ {p} :
                        peersRef[q][PageUserId[p]] # 0
                            => /\ ObjectsFor(peerObjs'[q], PageUserId[p])
                                     = ObjectsFor(peerObjs[q], PageUserId[p])
                               /\ \A i \in ObjectsFor(peerObjs[q], PageUserId[p]) :
                                      (peerObjs[q][i].st # "destroyed"
                                          /\ peerObjs'[q][i].st = "destroyed")
                                              => page'[q] = "left"]_vars

\* The messages page p emits in this step.
Emitted(p) ==
    {toRelay'[p][k] : k \in (Len(toRelay[p]) + 1)..Len(toRelay'[p])}

C31_MakingOfferHeld ==
    \A p \in Pages :
        testPage[p].signalingState = "have-local-offer" => testPage[p].makingOffer

\* C32: every signal the relay emits names as fromUserId a userId whose
\* registry entry holds the sending connection, and a signal event from a
\* connection that no registry entry holds emits nothing.
C32_SignalSenderBound ==
    last.kind = "signal" =>
        /\ \A k \in 1..Len(last.out) :
              /\ last.out[k].ev = "signal"
              /\ last.out[k].body.fromUserId \in UsersOfConn(last.preRooms, last.conn)
        /\ UsersOfConn(last.preRooms, last.conn) = {} => last.out = <<>>

\* A signal was relayed from a registry that also holds another connection
\* under another userId.
C32_Witness ==
    /\ last.kind = "signal"
    /\ Len(last.out) = 1
    /\ \E c \in Conns \ {last.conn} :
          /\ UsersOfConn(last.preRooms, c) # {}
          /\ last.out[1].body.fromUserId \notin UsersOfConn(last.preRooms, c)

\* C33: a leave-room naming a member whose registry entry holds another
\* connection than the sender leaves that entry in the registry and emits no
\* user-left for its userId.
C33_LeaveOnlyOwnMembership ==
    (/\ last.kind = "leave-room"
     /\ MapHas(RoomsGet(last.preRooms, last.roomId), last.userId)
     /\ MapGet(RoomsGet(last.preRooms, last.roomId), last.userId).socketId # last.conn) =>
        /\ MapHas(RoomsGet(rooms, last.roomId), last.userId)
        /\ last.out = <<>>

\* C34: the existing-users list sent in reply to a join-room never names the
\* joiner's own userId, and no page holds a connection object toward its own
\* userId.
C34_NoSelfInExistingUsers ==
    /\ last.kind = "join-room" =>
          \A k \in 1..Len(last.out) :
              last.out[k].ev = "existing-users" =>
                  \A j \in 1..Len(last.out[k].body) :
                      last.out[k].body[j].userId # last.userId
    /\ \A p \in Pages : ObjectsFor(peerObjs[p], PageUserId[p]) = {}

\* C35: a page that is connected and has a local stream has emitted its
\* join-room; a step that replaces that stream (screen share started or
\* stopped) emits no further join-room.
C35_JoinOncePerSession ==
    [][\A p \in Pages :
          (/\ connState[p] = "connected"
           /\ localStream[p] # 0
           /\ localStream'[p] # localStream[p])
              => \A m \in Emitted(p) : m.ev # "join-room"]_vars

\* Page q's userId is registered in the pages' room under q's own socket.
Registered(q) ==
    /\ MapHas(RoomsGet(rooms, PageRoomId), PageUserId[q])
    /\ MapGet(RoomsGet(rooms, PageRoomId), PageUserId[q]).socketId = q

C37_RenderedIsRegistered ==
    \A p \in Pages :
        page[p] = "open" =>
            \A i \in 1..Len(peerObjs[p]) :
                peerObjs[p][i].rendered = "yes" =>
                    /\ peersRef[p][peerObjs[p][i].to] = i
                    /\ peerObjs[p][i].st # "destroyed"

\* C38: a relayed signal is dispatched to the handlers of its own kind: type
\* offer to the offer handlers, type answer to the answer handlers, a
\* candidate payload to the ice-candidate handlers, and a payload that is
\* none of these not to the offer handlers.
C38_DispatchByKind ==
    [][\A p \in Pages :
          (/\ inbox[p] # <<>>
           /\ Head(inbox[p]).ev = "signal"
           /\ inbox'[p] = Tail(inbox[p]))
              => LET signal == Head(inbox[p]).body.signal
                     ran == testPage'[p].logs[Len(testPage'[p].logs)]
                 IN  /\ Len(testPage'[p].logs) = Len(testPage[p].logs) + 1
                     /\ signal.type = "offer" => ran = "offer"
                     /\ signal.type = "answer" => ran = "answer"
                     /\ (signal.type = "none" /\ signal.candidate # "absent")
                           => ran = "ice-candidate"
                     /\ (signal.type = "none" /\ signal.candidate = "absent")
                           => ran # "offer"]_vars

\* C39: the relay of the Next.js route and the relay of server.js, from the
\* same registry and given the same join-room, signal, leave-room or
\* disconnect event, reach the same registry and emit the same messages to
\* the same connections (and are both still serving).
C39_RelaysEquivalent ==
    last.kind \in {"join-room", "signal", "signal-undefined", "leave-room", "disconnect"} =>
        LET route == RouteHandled(last.kind, last.preRooms, last.preSio, last.conn,
                                  last.roomId, last.userId, last.userName, last.signal)
        IN  /\ route.rooms = rooms
            /\ route.sio = sioRooms
            /\ route.out = last.out
            /\ route.up = relayUp

====
